---------------------------- MODULE Spec2Model ----------------------------
(***************************************************************************)
(* A model of pyIslam: the HijriDate value type (hijri.py), the prayer     *)
(* time computation (praytimes.py) and the Qiblah bearing (qiblah.py).     *)
(*                                                                         *)
(* Each class is one component of the state; each method is one action.    *)
(* The helper module pyIslam.baselib (calendar conversions, dsin/dcos,     *)
(* equation of time) is imported by all three files; its operators are     *)
(* modelled here from the specification's description of it.               *)
(***************************************************************************)
EXTENDS Integers, Sequences, FiniteSets, TLC

VARIABLES
    hd,      \* the HijriDate object the caller holds (the receiver of the methods)
    hret,    \* what the last HijriDate operation returned or raised
    pconf,   \* the PrayerConf object
    pr,      \* the Prayer object under construction: where __init__ stands, its fields
    tobj,    \* a Prayer object as a time accessor reads it: summer time, one time field
    tod,     \* what the last time accessor returned or raised
    qb,      \* the Qiblah object
    qret,    \* what the last call on the Qiblah object returned
    cref     \* the angle_ref argument PrayerConf was last called with

hvars == <<hd, hret>>
pvars == <<pconf, pr>>
tvars == <<tobj, tod>>
qvars == <<qb, qret>>
vars == <<hd, hret, pconf, pr, tobj, tod, qb, qret, cref>>

(***************************************************************************)
(* Bounds of the model.                                                    *)
(***************************************************************************)
MaxYear == 6         \* Hijri years -1..MaxYear are tried (2 and 5 are leap years)
MaxCorr == 3         \* correction values -MaxCorr..MaxCorr are tried

Years  == -1 .. MaxYear
Months == 0 .. 13
Days   == 0 .. 31
Corrs  == -MaxCorr .. MaxCorr

(***************************************************************************)
(* Julian Days are counted in half days: the Gregorian conversion yields   *)
(* values ending in .5 (2000-01-01 is 2451544.5), the Hijri conversion     *)
(* whole ones.  A model value jd stands for the Julian Day jd / 2.         *)
(***************************************************************************)

(***************************************************************************)
(* baselib: Gregorian <-> Julian Day.                                      *)
(***************************************************************************)
\* gregorian_to_julian(dat): Jan/Feb count as months 13/14 of the year before
gregorian_to_julian(dat) ==
    LET y == IF dat[2] < 3 THEN dat[1] - 1 ELSE dat[1]
        m == IF dat[2] < 3 THEN dat[2] + 12 ELSE dat[2]
        a == y \div 100
        b == 2 - a + (a \div 4)
    IN  2 * (((1461 * (y + 4716)) \div 4) + ((306001 * (m + 1)) \div 10000)
             + dat[3] + b - 1525) + 1

\* julian_to_gregorian(jd): the inverse transform, <<year, month, day>>
julian_to_gregorian(jd) ==
    LET z     == (jd + 1) \div 2
        alpha == (4 * z - 7468865) \div 146097
        a     == z + 1 + alpha - (alpha \div 4)
        b     == a + 1524
        c     == (20 * b - 2442) \div 7305
        d     == (1461 * c) \div 4
        e     == (10000 * (b - d)) \div 306001
        day   == b - d - ((306001 * e) \div 10000)
        month == IF e < 14 THEN e - 1 ELSE e - 13
        year  == IF month > 2 THEN c - 4716 ELSE c - 4715
    IN  <<year, month, day>>

(***************************************************************************)
(* baselib: Hijri <-> Julian Day (the arithmetic 30-year cycle).           *)
(***************************************************************************)
HijriEpoch == 1948440

\* hijri_to_julian(dat): closed form over (year, month, day); no correction
hijri_to_julian(y, m, d) ==
    2 * (((11 * y + 3) \div 30) + 354 * y + 30 * m - ((m - 1) \div 2)
         + d + HijriEpoch - 385)

\* julian_to_hijri(jd, correction_val): adds the correction, takes the floor,
\* then derives the triple by modular arithmetic on the 30-year cycle
\* (10631 days).
julian_to_hijri(jd, correction_val) ==
    LET l0 == ((jd + 2 * correction_val) \div 2) - HijriEpoch + 10632
        n  == (l0 - 1) \div 10631
        l1 == l0 - 10631 * n + 354
        j  == ((10985 - l1) \div 5316) * ((50 * l1) \div 17719)
                + (l1 \div 5670) * ((43 * l1) \div 15238)
        l2 == l1 - ((30 - j) \div 15) * ((17719 * j) \div 50)
                 - (j \div 16) * ((15238 * j) \div 43) + 29
        m  == (24 * l2) \div 709
        d  == l2 - ((709 * m) \div 24)
        y  == 30 * n + j - 30
    IN  <<y, m, d>>

(***************************************************************************)
(* HijriDate                                                               *)
(***************************************************************************)
NoDate == [set |-> FALSE, year |-> 0, month |-> 0, day |-> 0, julian |-> 0]

NoRet == [op |-> "none", exc |-> "none", args |-> <<>>, date |-> NoDate, val |-> <<>>]

\* HijriDate.__init__(year, month, day) with int arguments: the outcome of the
\* three range checks, in the order the constructor makes them.
HijriDateRaises(year, month, day) ==
    \/ year < 0
    \/ ~(month \in 1 .. 12)
    \/ ~(month \in 1 .. 30)      \* the day check tests `month`

\* The constructor caching the Julian Day of the month's first day
HijriDateInit_StaleDay(year, month, day) ==
    [set |-> TRUE, year |-> year, month |-> month, day |-> day,
     julian |-> hijri_to_julian(year, month, 1)]

\* The object the constructor leaves behind when no check raises: the three
\* fields, and the Julian Day derived from them.
HijriDateInit(year, month, day) ==
    [set |-> TRUE, year |-> year, month |-> month, day |-> day,
     julian |-> hijri_to_julian(year, month, day)]

\* HijriDate(year, month, day) as an expression: the object, or NoDate when
\* the constructor raises ValueError.
HijriDateNew(year, month, day) ==
    IF HijriDateRaises(year, month, day) THEN NoDate
    ELSE HijriDateInit(year, month, day)

\* from_julian with the month and the day handed to the constructor in the
\* wrong order
from_julian_Swapped(jd, correction_val) ==
    LET hdt == julian_to_hijri(jd, correction_val)
    IN  HijriDateNew(hdt[1], hdt[3], hdt[2])

\* HijriDate.from_julian(jd, correction_val)
from_julian(jd, correction_val) ==
    LET hdt == julian_to_hijri(jd, correction_val)
    IN  HijriDateNew(hdt[1], hdt[2], hdt[3])

\* HijriDate.get_hijri(dat, correction_val), dat a datetime.date
get_hijri(dat, correction_val) ==
    LET hdt == julian_to_hijri(gregorian_to_julian(dat), correction_val)
    IN  HijriDateNew(hdt[1], hdt[2], hdt[3])

\* self.next_date()
next_date(self) == from_julian(self.julian + 2, 0)

\* datetime.date(y, m, d) accepts years 1..9999 (the month and day that
\* julian_to_gregorian yields are a calendar day).
DateRaises(gd) == ~(gd[1] \in 1 .. 9999)

\* What a call that returns a HijriDate leaves in hret.
RetDate(op, args, date) ==
    [NoRet EXCEPT !.op = op, !.args = args, !.date = date,
                  !.exc = IF date.set THEN "none" ELSE "ValueError"]

HijriIdle ==
    /\ hd = NoDate
    /\ hret = NoRet

\* h = HijriDate(year, month, day)
Construct(year, month, day) ==
    /\ ~hd.set
    /\ hret.op = "none"
    /\ hd' = HijriDateNew(year, month, day)
    /\ hret' = RetDate("HijriDate", <<year, month, day>>, hd')

\* h = HijriDate.from_julian(jd, correction_val)
FromJulian(jd, correction_val) ==
    /\ ~hd.set
    /\ hret.op = "none"
    /\ hd' = from_julian(jd, correction_val)
    /\ hret' = RetDate("from_julian", <<jd, correction_val>>, hd')

\* h = HijriDate.get_hijri(dat, correction_val)
GetHijri(dat, correction_val) ==
    /\ ~hd.set
    /\ hret.op = "none"
    /\ hd' = get_hijri(dat, correction_val)
    /\ hret' = RetDate("get_hijri", <<dat[1], dat[2], dat[3], correction_val>>, hd')

\* HijriDate.from_julian(h._julian, correction_val): the cached Julian Day
\* converted back
RoundTrip(correction_val) ==
    /\ hd.set
    /\ hret' = RetDate("round_trip", <<correction_val>>,
                       from_julian(hd.julian, correction_val))
    /\ UNCHANGED hd

\* h.next_date()
NextDate ==
    /\ hd.set
    /\ hret' = RetDate("next_date", <<>>, next_date(hd))
    /\ UNCHANGED hd

\* h.is_last()
IsLast ==
    /\ hd.set
    /\ LET nd == next_date(hd)
       IN  hret' = IF ~nd.set
                   THEN [NoRet EXCEPT !.op = "is_last", !.exc = "ValueError"]
                   ELSE [NoRet EXCEPT !.op = "is_last",
                             !.val = <<IF hd.month # nd.month THEN 1 ELSE 0>>]
    /\ UNCHANGED hd

\* h.to_gregorian()
ToGregorian ==
    /\ hd.set
    /\ LET gd == julian_to_gregorian(hd.julian)
       IN  hret' = IF DateRaises(gd)
                   THEN [NoRet EXCEPT !.op = "to_gregorian", !.exc = "ValueError"]
                   ELSE [NoRet EXCEPT !.op = "to_gregorian", !.val = gd]
    /\ UNCHANGED hd

\* h - value, value the HijriDate the previous call returned (or h itself):
\* the difference in days
Sub ==
    /\ hd.set
    /\ LET value == IF hret.date.set THEN hret.date ELSE hd
       IN  hret' = [NoRet EXCEPT !.op = "sub",
                        !.val = <<(hd.julian
                                   - hijri_to_julian(value.year, value.month, value.day))
                                  \div 2>>]
    /\ UNCHANGED hd

\* h.format(lang) with an int lang: the day, month and year that the string
\* is made of (lang 0: numeric; 1, 2: the month's name in that language)
Format(lang) ==
    /\ hd.set
    /\ hret' = IF ~(lang \in 0 .. 2)
               THEN [NoRet EXCEPT !.op = "format", !.exc = "ValueError",
                                  !.args = <<lang>>]
               ELSE [NoRet EXCEPT !.op = "format", !.args = <<lang>>,
                                  !.val = <<hd.day, hd.month, hd.year>>]
    /\ UNCHANGED hd

\* h = h.next_date(): the caller keeps the returned value
Adopt ==
    /\ hd.set
    /\ hret.op = "next_date"
    /\ hret.date.set
    /\ hret.date.year <= MaxYear
    /\ hd' = hret.date
    /\ hret' = NoRet

JulianSamples == {2 * 1948085, 2 * 1948086, 2 * HijriEpoch, 2 * 2460380 + 1}

DateSamples == {<<1, 1, 1>>, <<622, 7, 19>>, <<2024, 3, 10>>, <<2024, 3, 11>>,
                <<2024, 4, 9>>, <<2024, 4, 10>>}

NextHijri ==
  /\ UNCHANGED <<pvars, tvars, qvars, cref>>
  /\
    \/ \E y \in Years, m \in Months, d \in Days : Construct(y, m, d)
    \/ \E jd \in JulianSamples, c \in Corrs : FromJulian(jd, c)
    \/ \E dat \in DateSamples, c \in Corrs : GetHijri(dat, c)
    \/ \E c \in Corrs : RoundTrip(c)
    \/ NextDate
    \/ IsLast
    \/ ToGregorian
    \/ Sub
    \/ \E lang \in 0 .. 3 : Format(lang)
    \/ Adopt

(***************************************************************************)
(* Trigonometry.  Angles are whole numbers of thousandths of a degree,     *)
(* sines and cosines whole numbers of 1 / TrigOne.  math.sin is the table  *)
(* of the sines of 0..90 degrees, read with linear interpolation; the      *)
(* inverse functions read the same table backwards.                        *)
(***************************************************************************)
TrigOne == 10 ^ 4
Deg == 10 ^ 3                \* one degree

SinTable ==
    <<0, 175, 349, 523, 698, 872, 1045, 1219, 1392, 1564, 1736, 1908, 2079,
      2250, 2419, 2588, 2756, 2924, 3090, 3256, 3420, 3584, 3746, 3907, 4067, 4226,
      4384, 4540, 4695, 4848, 5000, 5150, 5299, 5446, 5592, 5736, 5878, 6018, 6157,
      6293, 6428, 6561, 6691, 6820, 6947, 7071, 7193, 7314, 7431, 7547, 7660, 7771,
      7880, 7986, 8090, 8192, 8290, 8387, 8480, 8572, 8660, 8746, 8829, 8910, 8988,
      9063, 9135, 9205, 9272, 9336, 9397, 9455, 9511, 9563, 9613, 9659, 9703, 9744,
      9781, 9816, 9848, 9877, 9903, 9925, 9945, 9962, 9976, 9986, 9994, 9998, 10000>>

\* the sine of a, 0 <= a <= 90 degrees
SinQ(a) ==
    LET k == a \div Deg
        f == a % Deg
    IN  IF f = 0 THEN SinTable[k + 1]
        ELSE SinTable[k + 1] + ((SinTable[k + 2] - SinTable[k + 1]) * f) \div Deg

\* baselib.dsin(deg), baselib.dcos(deg): sine and cosine of an angle in degrees
dsin(a) ==
    LET r == a % (360 * Deg)
    IN  IF r <= 90 * Deg THEN SinQ(r)
        ELSE IF r <= 180 * Deg THEN SinQ(180 * Deg - r)
        ELSE IF r <= 270 * Deg THEN 0 - SinQ(r - 180 * Deg)
        ELSE 0 - SinQ(360 * Deg - r)

dcos(a) == dsin(a + 90 * Deg)

\* the angle in 0..90 degrees whose sine is x, 0 <= x <= TrigOne
AsinQ(x) ==
    IF x >= TrigOne THEN 90 * Deg
    ELSE LET k == CHOOSE i \in 0 .. 89 : SinTable[i + 1] <= x /\ x < SinTable[i + 2]
         IN  k * Deg + ((x - SinTable[k + 1]) * Deg)
                          \div (SinTable[k + 2] - SinTable[k + 1])

\* (180 / pi) * atan(x / sqrt(1 - x * x)) for |x| < 1: the arcsine, in degrees
AsinDeg(x) == IF x >= 0 THEN AsinQ(x) ELSE 0 - AsinQ(0 - x)

\* (180 / pi) * atan(p / q) for q >= 0 and (p, q) # (0, 0): the angle in
\* -90..90 degrees whose tangent is p / q, found where p cos(k) - q sin(k)
\* changes sign
AtanDeg(p, q) ==
    LET f(k) == p * dcos(k * Deg) - q * dsin(k * Deg)
        k0   == CHOOSE k \in -90 .. 89 : f(k) >= 0 /\ (k = 89 \/ f(k + 1) < 0)
        step == (f(k0) - f(k0 + 1)) \div 8
    IN  IF step = 0 THEN k0 * Deg
        ELSE k0 * Deg + ((f(k0) \div 8) * Deg) \div step

(***************************************************************************)
(* Decimal hours of the prayer times are whole numbers of 1 / Hour of an   *)
(* hour: six units to a thousandth of a degree of hour angle, so that the  *)
(* halves and thirds of the night computed from them are whole too.        *)
(***************************************************************************)
Hour == 6 * 15 * Deg

\* the units of time the sun takes over a thousandth of a degree: 15 degrees an hour
PerDeg == Hour \div (15 * Deg)

(***************************************************************************)
(* baselib: equation of time.                                              *)
(***************************************************************************)
\* days since 2000-01-01 (Julian Day 2451544.5)
DaysSinceEpoch(jd) == (jd - 4903089) \div 2

\* 0.9856003 * n and 0.9856474 * n degrees
MeanAnomalyRate(n) == 985 * n + (6003 * n) \div 10000
MeanLongitudeRate(n) == 985 * n + (6474 * n) \div 10000

\* equation_of_time(jd), in thousandths of a minute: four minutes to a degree
\* of the truncated series in the mean anomaly and the ecliptic longitude
equation_of_time(jd) ==
    LET n     == DaysSinceEpoch(jd)
        g     == 357528 + MeanAnomalyRate(n)
        c     == (19148 * dsin(g)) \div (10 * TrigOne) + (20 * dsin(2 * g)) \div TrigOne
                   + (3 * dsin(3 * g)) \div (10 * TrigOne)
        lamda == 280470 + MeanAnomalyRate(n) + c
        r     == (0 - 2468 * dsin(2 * lamda)) \div TrigOne
                   + (53 * dsin(4 * lamda)) \div TrigOne
                   + (14 * dsin(6 * lamda)) \div (10 * TrigOne)
    IN  (c + r) * 4

(***************************************************************************)
(* FixedTime, MethodInfo, LIST_FAJR_ISHA_METHODS                           *)
(***************************************************************************)
\* a numeric angle in degrees, and a FixedTime(all_year_time_min, ramadan_time_min)
Angle(a) == [fixed |-> FALSE, angle |-> a, all_year |-> 0, ramadan |-> 0]
FixedTime(all_year_time_min, ramadan_time_min) ==
    [fixed |-> TRUE, angle |-> 0, all_year |-> all_year_time_min,
     ramadan |-> ramadan_time_min]

\* FixedTime.ramadan_time_hr, FixedTime.all_year_time_hr: minutes / 60.0
ramadan_time_hr(ft) == (ft.ramadan * Hour) \div 60
all_year_time_hr(ft) == (ft.all_year * Hour) \div 60

MethodInfo(method_id, fajr_angle, ishaa_angle) ==
    [id |-> method_id, fajr_angle |-> fajr_angle, ishaa_angle |-> ishaa_angle]

LIST_FAJR_ISHA_METHODS ==
    << MethodInfo(1, Angle(18000), Angle(18000)),
       MethodInfo(2, Angle(18000), Angle(17000)),
       MethodInfo(3, Angle(19500), Angle(17500)),
       MethodInfo(4, Angle(18500), FixedTime(90, 120)),
       MethodInfo(5, Angle(15000), Angle(15000)),
       MethodInfo(6, Angle(12000), Angle(12000)),
       MethodInfo(7, Angle(20000), Angle(18000)),
       MethodInfo(8, Angle(16000), Angle(15000)),
       MethodInfo(9, Angle(19500), FixedTime(90, 90)) >>

(***************************************************************************)
(* PrayerConf                                                              *)
(***************************************************************************)
NoConf == [set |-> FALSE, exc |-> "none", angle_ref |-> 0,
           longitude |-> 0, latitude |-> 0, timezone |-> 0,
           sherook_angle |-> 0, maghreb_angle |-> 0, asr_madhab |-> 0,
           longitude_difference |-> 0, summer_time |-> FALSE,
           fajr_angle |-> Angle(0), ishaa_angle |-> Angle(0)]

\* the index PrayerConf.__init__ reads the registry at, for an int angle_ref
MethodIndex(angle_ref) ==
    IF angle_ref <= Len(LIST_FAJR_ISHA_METHODS) THEN angle_ref - 1 ELSE 2

\* tuple[i] in Python: i counts from 0, a negative i from the end
IndexRaises(i, len) == ~(i \in (0 - len) .. (len - 1))
TupleItem(tuple, i) == IF i >= 0 THEN tuple[i + 1] ELSE tuple[Len(tuple) + i + 1]

\* method.fajr_angle + 90.0 unless it is a FixedTime (and so for ishaa_angle)
StoredAngle(a) == IF a.fixed THEN a ELSE Angle(a.angle + 90 * Deg)

\* PrayerConf(longitude, latitude, timezone, angle_ref, asr_madhab,
\* enable_summer_time) with an int angle_ref
PrayerConfInit(longitude, latitude, timezone, angle_ref, asr_madhab, enable_summer_time) ==
    IF IndexRaises(MethodIndex(angle_ref), Len(LIST_FAJR_ISHA_METHODS))
    THEN [NoConf EXCEPT !.exc = "IndexError", !.angle_ref = angle_ref]
    ELSE LET method == TupleItem(LIST_FAJR_ISHA_METHODS, MethodIndex(angle_ref))
         IN  [set |-> TRUE, exc |-> "none", angle_ref |-> angle_ref,
              longitude |-> longitude, latitude |-> latitude,
              timezone |-> timezone,
              sherook_angle |-> 90833, maghreb_angle |-> 90833,
              asr_madhab |-> IF asr_madhab = 2 THEN 2 ELSE 1,
              longitude_difference |->
                  (timezone * 15 * Deg - longitude) * PerDeg,
              summer_time |-> enable_summer_time,
              fajr_angle |-> StoredAngle(method.fajr_angle),
              ishaa_angle |-> StoredAngle(method.ishaa_angle)]

(***************************************************************************)
(* Prayer                                                                  *)
(***************************************************************************)
Fields == {"dohr", "fajr", "sherook", "asr", "maghreb", "ishaa",
           "midnight", "second_third", "last_third"}

\* arg is the correction_val the constructor was called with; correction_val
\* is the attribute, which only an accepted value is stored in
NoPrayer == [pc |-> "new", exc |-> "none", date |-> <<0, 0, 0>>, jd |-> 0,
             arg |-> 0, correction_val |-> 0, assigned |-> {},
             t |-> [f \in Fields |-> 0]]

\* what a computation yields: a value, or the exception it raises
Val(v) == [exc |-> "none", v |-> v]
Raise(exc) == [exc |-> exc, v |-> 0]

\* the test on correction_val with a range one value wider at both ends
CorrectionRaises_Wide(correction_val) == ~(correction_val \in -3 .. 3)

\* `correction_val in range(-2, 3)` fails
CorrectionRaises(correction_val) == ~(correction_val \in -2 .. 2)

\* self._sun_declination(), in thousandths of a degree
_sun_declination(jd) ==
    LET n       == DaysSinceEpoch(jd)
        epsilon == 23440 - (4 * n) \div 10000
        l       == 280466 + MeanLongitudeRate(n)
        g       == 357528 + MeanAnomalyRate(n)
        lamda   == l + (1915 * dsin(g)) \div TrigOne + (20 * dsin(2 * g)) \div TrigOne
        x       == (dsin(epsilon) * dsin(lamda)) \div TrigOne
    IN  AsinDeg(x)

\* self._get_time_for_angle(angle): the hour angle at which the sun stands
\* `angle` degrees from the zenith; atan(-s / sqrt(-s * s + 1)) raises unless
\* |s| < 1, and dcos(angle) raises on a FixedTime
_get_time_for_angle(conf, jd, angle) ==
    LET delta == _sun_declination(jd)
        num   == dcos(angle.angle) * TrigOne - dsin(conf.latitude) * dsin(delta)
        den   == dcos(conf.latitude) * dcos(delta)
        s     == ((num \div 100) * 100) \div (den \div TrigOne)
    IN  IF angle.fixed THEN Raise("TypeError")
        ELSE IF den = 0 THEN Raise("ZeroDivisionError")
        ELSE IF num = den \/ num = 0 - den THEN Raise("ZeroDivisionError")
        ELSE IF num > den \/ num < 0 - den THEN Raise("ValueError")
        ELSE Val((90 * Deg - AsinDeg(s)) * PerDeg)

\* self._get_asr_angle(): the zenith distance of the sun at Asr, negated
_get_asr_angle(conf, jd) ==
    LET delta == _sun_declination(jd)
        xx    == dsin(conf.latitude) * dsin(delta) + dcos(conf.latitude) * dcos(delta)
        a     == AsinDeg(xx \div TrigOne)
        sgn   == IF dsin(a) < 0 THEN -1 ELSE 1
    IN  IF xx >= TrigOne * TrigOne \/ xx <= 0 - TrigOne * TrigOne
        THEN Raise(IF xx = TrigOne * TrigOne \/ xx = 0 - TrigOne * TrigOne
                   THEN "ZeroDivisionError" ELSE "ValueError")
        ELSE IF a = 0 THEN Raise("ZeroDivisionError")
        ELSE Val(0 - AtanDeg(sgn * (conf.asr_madhab * dsin(a) + dcos(a)),
                             sgn * dsin(a)))

\* dohr + sign * self._get_time_for_angle(angle)
OffsetFromDohr(conf, self, sign, angle) ==
    LET h == _get_time_for_angle(conf, self.jd, angle)
    IN  IF h.exc # "none" THEN h ELSE Val(self.t["dohr"] + sign * h.v)

_get_dohr_time(conf, self) ==
    Val(12 * Hour + conf.longitude_difference
          + (equation_of_time(self.jd) * (Hour \div 1000)) \div 60)

_get_fajr_time(conf, self) == OffsetFromDohr(conf, self, -1, conf.fajr_angle)

_get_sherook_time(conf, self) ==
    OffsetFromDohr(conf, self, -1, Angle(conf.sherook_angle))

_get_asr_time(conf, self) ==
    LET angle == _get_asr_angle(conf, self.jd)
    IN  IF angle.exc # "none" THEN angle
        ELSE OffsetFromDohr(conf, self, 1, Angle(angle.v))

_get_maghreb_time(conf, self) ==
    OffsetFromDohr(conf, self, 1, Angle(conf.maghreb_angle))

\* _get_ishaa_time with the two offsets of the FixedTime taken for each other
_get_ishaa_time_Swapped(conf, self) ==
    IF conf.ishaa_angle.fixed
    THEN LET hdt == get_hijri(self.date, self.correction_val)
             h   == _get_time_for_angle(conf, self.jd, Angle(conf.maghreb_angle))
         IN  IF ~hdt.set THEN Raise("ValueError")
             ELSE IF h.exc # "none" THEN h
             ELSE Val((IF hdt.month = 9 THEN all_year_time_hr(conf.ishaa_angle)
                       ELSE ramadan_time_hr(conf.ishaa_angle))
                      + self.t["dohr"] + h.v)
    ELSE OffsetFromDohr(conf, self, 1, conf.ishaa_angle)

_get_ishaa_time(conf, self) ==
    IF conf.ishaa_angle.fixed
    THEN LET hdt == get_hijri(self.date, self.correction_val)
             h   == _get_time_for_angle(conf, self.jd, Angle(conf.maghreb_angle))
         IN  IF ~hdt.set THEN Raise("ValueError")
             ELSE IF h.exc # "none" THEN h
             ELSE Val((IF hdt.month = 9 THEN ramadan_time_hr(conf.ishaa_angle)
                       ELSE all_year_time_hr(conf.ishaa_angle))
                      + self.t["dohr"] + h.v)
    ELSE OffsetFromDohr(conf, self, 1, conf.ishaa_angle)

\* 24.0 - (self._maghreb_time - self._fajr_time)
NightLength(self) == 24 * Hour - (self.t["maghreb"] - self.t["fajr"])

_get_midnight(conf, self) == Val(self.t["maghreb"] + NightLength(self) \div 2)

_get_second_third_of_night(conf, self) ==
    Val(self.t["maghreb"] + NightLength(self) \div 3)

\* the last third of the night put at its half
_get_last_third_of_night_Half(conf, self) ==
    Val(self.t["maghreb"] + NightLength(self) \div 2)

_get_last_third_of_night(conf, self) ==
    Val(self.t["maghreb"] + (2 * NightLength(self)) \div 3)

(***************************************************************************)
(* Prayer.__init__, statement by statement.  pr.pc names the statement     *)
(* that runs next; a statement that raises ends the construction.          *)
(***************************************************************************)
PrayerIdle ==
    /\ pconf = NoConf
    /\ pr = NoPrayer

\* conf = PrayerConf(longitude, latitude, timezone, angle_ref, asr_madhab,
\*                   enable_summer_time)
NewPrayerConf(longitude, latitude, timezone, angle_ref, asr_madhab, enable_summer_time) ==
    /\ ~pconf.set /\ pconf.exc = "none"
    /\ pconf' = PrayerConfInit(longitude, latitude, timezone, angle_ref,
                               asr_madhab, enable_summer_time)
    /\ UNCHANGED pr

\* the constructor with the Fajr assignment as its first, ahead of Dhuhr's
NewPrayer_FajrFirst(dat, correction_val) ==
    /\ pconf.set
    /\ pr.pc = "new"
    /\ pr' = [pr EXCEPT !.date = dat, !.jd = gregorian_to_julian(dat),
                        !.arg = correction_val,
                        !.correction_val = IF CorrectionRaises(correction_val)
                                           THEN @ ELSE correction_val,
                        !.pc = IF CorrectionRaises(correction_val)
                               THEN "raised" ELSE "fajr",
                        !.exc = IF CorrectionRaises(correction_val)
                                THEN "Exception" ELSE "none"]
    /\ UNCHANGED pconf

\* Prayer(conf, dat, correction_val): the statements before the first time is
\* computed (lines 203-210)
NewPrayer(dat, correction_val) ==
    /\ pconf.set
    /\ pr.pc = "new"
    /\ pr' = [pr EXCEPT !.date = dat, !.jd = gregorian_to_julian(dat),
                        !.arg = correction_val,
                        !.correction_val = IF CorrectionRaises(correction_val)
                                           THEN @ ELSE correction_val,
                        !.pc = IF CorrectionRaises(correction_val)
                               THEN "raised" ELSE "dohr",
                        !.exc = IF CorrectionRaises(correction_val)
                                THEN "Exception" ELSE "none"]
    /\ UNCHANGED pconf

\* the fields of self the getter of a field reads
Reads(field) ==
    IF field = "dohr" THEN {}
    ELSE IF field \in {"fajr", "sherook", "asr", "maghreb", "ishaa"} THEN {"dohr"}
    ELSE {"maghreb", "fajr"}

\* self._<field>_time = <the value computed>, or the exception that ends it:
\* reading an attribute that was never assigned raises AttributeError
Assign(field, result, next) ==
    /\ pr.pc = field
    /\ pr' = IF ~(Reads(field) \subseteq pr.assigned)
             THEN [pr EXCEPT !.pc = "raised", !.exc = "AttributeError"]
             ELSE IF result.exc # "none"
             THEN [pr EXCEPT !.pc = "raised", !.exc = result.exc]
             ELSE [pr EXCEPT !.pc = next, !.t[field] = result.v,
                             !.assigned = @ \cup {field}]
    /\ UNCHANGED pconf

SetDohr    == Assign("dohr", _get_dohr_time(pconf, pr), "fajr")
SetFajr    == Assign("fajr", _get_fajr_time(pconf, pr), "sherook")
SetSherook == Assign("sherook", _get_sherook_time(pconf, pr), "asr")
SetAsr     == Assign("asr", _get_asr_time(pconf, pr), "maghreb")
SetMaghreb == Assign("maghreb", _get_maghreb_time(pconf, pr), "ishaa")
SetIshaa   == Assign("ishaa", _get_ishaa_time(pconf, pr), "midnight")
SetMidnight == Assign("midnight", _get_midnight(pconf, pr), "second_third")
SetSecondThird ==
    Assign("second_third", _get_second_third_of_night(pconf, pr), "last_third")
SetLastThird ==
    Assign("last_third", _get_last_third_of_night(pconf, pr), "done")

\* the observers, <<longitude, latitude, timezone>>: Makkah, Paris, Cambridge,
\* Tromso and Sydney, to the degree
Locations == {<<39826, 21422, 3>>, <<2000, 48000, 1>>, <<0, 52000, 0>>,
              <<19000, 70000, 1>>, <<151000, -34000, 10>>}

PrayerDates == {<<2024, 3, 11>>, <<2024, 3, 20>>, <<2024, 6, 21>>, <<2024, 12, 21>>}

NextPrayer ==
  /\ UNCHANGED <<hvars, tvars, qvars, cref>>
  /\
    \/ \E loc \in Locations, angle_ref \in 1 .. Len(LIST_FAJR_ISHA_METHODS),
          asr_madhab \in 1 .. 2 :
            NewPrayerConf(loc[1], loc[2], loc[3], angle_ref, asr_madhab, FALSE)
    \/ \E dat \in PrayerDates, c \in Corrs : NewPrayer(dat, c)
    \/ SetDohr
    \/ SetFajr
    \/ SetSherook
    \/ SetAsr
    \/ SetMaghreb
    \/ SetIshaa
    \/ SetMidnight
    \/ SetSecondThird
    \/ SetLastThird

(***************************************************************************)
(* PrayerConf with an angle_ref of any type: an int, a MethodInfo, or a    *)
(* value of another type (a float, a str).                                 *)
(***************************************************************************)
MaxRef == 11

NoRef == [type |-> "none", n |-> 0, method |-> MethodInfo(0, Angle(0), Angle(0))]
IntRef(n) == [NoRef EXCEPT !.type = "int", !.n = n]
MethodRef(method) == [NoRef EXCEPT !.type = "MethodInfo", !.method = method]
OtherRef(type) == [NoRef EXCEPT !.type = type]

\* PrayerConf(longitude, latitude, timezone, angle_ref, asr_madhab,
\* enable_summer_time): the isinstance tests on angle_ref
PrayerConfOf(longitude, latitude, timezone, angle_ref, asr_madhab, enable_summer_time) ==
    IF angle_ref.type = "int"
    THEN PrayerConfInit(longitude, latitude, timezone, angle_ref.n,
                        asr_madhab, enable_summer_time)
    ELSE IF angle_ref.type = "MethodInfo"
    THEN [set |-> TRUE, exc |-> "none", angle_ref |-> 0,
          longitude |-> longitude, latitude |-> latitude,
          timezone |-> timezone,
          sherook_angle |-> 90833, maghreb_angle |-> 90833,
          asr_madhab |-> IF asr_madhab = 2 THEN 2 ELSE 1,
          longitude_difference |-> (timezone * 15 * Deg - longitude) * PerDeg,
          summer_time |-> enable_summer_time,
          fajr_angle |-> StoredAngle(angle_ref.method.fajr_angle),
          ishaa_angle |-> StoredAngle(angle_ref.method.ishaa_angle)]
    ELSE [NoConf EXCEPT !.exc = "TypeError"]

\* conf = PrayerConf(..., angle_ref, ...) for an angle_ref of any type
NewPrayerConfOf(longitude, latitude, timezone, angle_ref, asr_madhab, enable_summer_time) ==
    /\ ~pconf.set /\ pconf.exc = "none"
    /\ pconf' = PrayerConfOf(longitude, latitude, timezone, angle_ref,
                             asr_madhab, enable_summer_time)
    /\ cref' = angle_ref
    /\ UNCHANGED pr

\* the values of angle_ref: ints on both sides of the registry's ids,
\* MethodInfo objects of the caller's own, a float and a str
AngleRefs ==
    {IntRef(n) : n \in (0 - MaxRef) .. MaxRef}
    \cup {MethodRef(MethodInfo(42, Angle(17000), Angle(13500))),
          MethodRef(MethodInfo(43, Angle(17000), FixedTime(60, 70))),
          MethodRef(MethodInfo(44, FixedTime(60, 70), Angle(13500)))}
    \cup {OtherRef("float"), OtherRef("str")}

NextConf ==
  /\ UNCHANGED <<hvars, tvars, qvars>>
  /\ \E loc \in Locations, angle_ref \in AngleRefs, asr_madhab \in 0 .. 3,
        enable_summer_time \in BOOLEAN :
          NewPrayerConfOf(loc[1], loc[2], loc[3], angle_ref, asr_madhab,
                          enable_summer_time)

(***************************************************************************)
(* Qiblah.  The bearing is a whole number of thousandths of a degree, and  *)
(* so are the minutes and seconds sixty() leaves in its place.             *)
(***************************************************************************)
MAKKAH_LATI == 21422
MAKKAH_LONG == 39826

\* the product of two sines, as a sine: rounded towards zero, as the float
\* product is symmetric in the signs of its factors
SinProduct(a, b) ==
    IF a * b >= 0 THEN (a * b) \div TrigOne ELSE 0 - ((0 - a * b) \div TrigOne)

NoQiblah == [called |-> FALSE, set |-> FALSE, exc |-> "none", qiblah_dir |-> 0]

\* Qiblah(conf)
QiblahInit(conf) ==
    LET lamda == MAKKAH_LONG - conf.longitude
        num   == SinProduct(dcos(MAKKAH_LATI), dsin(lamda))
        denom == SinProduct(dsin(MAKKAH_LATI), dcos(conf.latitude))
                 - SinProduct(SinProduct(dcos(MAKKAH_LATI), dsin(conf.latitude)),
                              dcos(lamda))
        atan  == IF denom > 0 THEN AtanDeg(num, denom)
                 ELSE AtanDeg(0 - num, 0 - denom)
    IN  IF denom = 0
        THEN [NoQiblah EXCEPT !.called = TRUE, !.exc = "ZeroDivisionError"]
        ELSE [called |-> TRUE, set |-> TRUE, exc |-> "none",
              qiblah_dir |-> IF denom < 0 THEN 180 * Deg + atan
                             ELSE IF num < 0 THEN 360 * Deg + atan
                             ELSE atan]

\* int(x) of a number of thousandths: the whole part, rounded towards zero
int(x) == IF x >= 0 THEN x \div Deg ELSE 0 - ((0 - x) \div Deg)

\* (x - int(x)) * 60
NextSixtieth(x) == (x - int(x) * Deg) * 60

\* what sixty() returns, as <<degrees, minutes, seconds>>, for a bearing x
SixtyString(x) ==
    <<int(x), int(NextSixtieth(x)), int(NextSixtieth(NextSixtieth(x)))>>

\* self._qiblah_dir when sixty() returns
SixtyLeaves(x) == NextSixtieth(NextSixtieth(NextSixtieth(x)))

NoQRet == [op |-> "none", val |-> <<>>]

QiblahIdle ==
    /\ qb = NoQiblah
    /\ qret = NoQRet

\* PrayerConf(longitude, latitude): the observer Qiblah is given
QiblahConf(longitude, latitude) ==
    /\ ~qb.called
    /\ NewPrayerConf(longitude, latitude, 0, 1, 1, FALSE)
    /\ UNCHANGED qvars

\* q = Qiblah(conf)
QiblahNew ==
    /\ pconf.set
    /\ ~qb.called
    /\ qb' = QiblahInit(pconf)
    /\ UNCHANGED <<qret, pvars>>

\* q.direction()
Direction ==
    /\ qb.set
    /\ qret' = [op |-> "direction", val |-> <<qb.qiblah_dir>>]
    /\ UNCHANGED <<qb, pvars>>

\* q.sixty()
Sixty ==
    /\ qb.set
    /\ qret' = [op |-> "sixty", val |-> SixtyString(qb.qiblah_dir)]
    /\ qb' = [qb EXCEPT !.qiblah_dir = SixtyLeaves(qb.qiblah_dir)]
    /\ UNCHANGED pvars

\* observers: on the meridian and the parallel of Makkah and of its antipode,
\* and away from them
QLongitudes == {MAKKAH_LONG, MAKKAH_LONG - 180 * Deg, 2000, -74000, 151000}
QLatitudes == {MAKKAH_LATI, 0 - MAKKAH_LATI, 48000, 0, -34000}

NextQiblah ==
  /\ UNCHANGED <<hvars, tvars, cref>>
  /\
    \/ \E longitude \in QLongitudes, latitude \in QLatitudes :
          QiblahConf(longitude, latitude)
    \/ QiblahNew
    \/ Direction
    \/ Sixty

(***************************************************************************)
(* Floating point.  The decimal hours of praytimes.py are Python floats    *)
(* (IEEE-754 binary64: 53 significant bits, round to nearest, ties to      *)
(* even).  The model keeps the format and its rounding and shortens it: a   *)
(* float is a whole number of units of 2^-FracBits, and carries MantBits   *)
(* significant bits.                                                       *)
(***************************************************************************)
MantBits == 10
FracBits == 16

One == 2 ^ FracBits          \* 1.0

\* the number of bits of n >= 0
BitLen(n) == CHOOSE k \in 0 .. 30 : n < 2 ^ k /\ (k = 0 \/ n >= 2 ^ (k - 1))

\* the spacing of the floats around q >= 0
Ulp(q) == IF q < 2 ^ MantBits THEN 1 ELSE 2 ^ (BitLen(q) - MantBits)

\* the float nearest to q + rnum / rden units (q >= 0, 0 <= rnum < rden)
RoundRat(q, rnum, rden) ==
    LET u    == Ulp(q)
        lo   == (q \div u) * u
        rest == 2 * ((q - lo) * rden + rnum)
        up   == rest > u * rden \/ (rest = u * rden /\ (q \div u) % 2 = 1)
    IN  IF up THEN lo + u ELSE lo

\* the float nearest to n units
FRound(n) == IF n >= 0 THEN RoundRat(n, 0, 1) ELSE 0 - RoundRat(0 - n, 0, 1)

\* a + b, a - b, a * k and a / k as the float operations compute them
FAdd(a, b) == FRound(a + b)
FSub(a, b) == FRound(a - b)
FMul(a, k) == FRound(a * k)
FDiv(a, k) ==
    IF a >= 0 THEN RoundRat(a \div k, a % k, k)
    ELSE 0 - RoundRat((0 - a) \div k, (0 - a) % k, k)

\* math.floor(a): an int
Floor(a) == a \div One

(***************************************************************************)
(* Prayer._hours_to_time                                                   *)
(***************************************************************************)
NoTime == [op |-> "none", shift |-> 0, exc |-> "none",
           hour |-> 0, minute |-> 0, second |-> 0]

\* datetime.time(hour, minute, second) raises ValueError outside its ranges
TimeRaises(hour, minute, second) ==
    ~(hour \in 0 .. 23 /\ minute \in 0 .. 59 /\ second \in 0 .. 59)

\* self._hours_to_time(val, shift) with a numeric shift, summer_time being
\* self._conf.summer_time
_hours_to_time(val, shift, summer_time) ==
    LET st       == IF summer_time THEN 1 ELSE 0
        hours    == FAdd(val, FDiv(shift, 3600))
        minutes  == FMul(FSub(hours, Floor(hours) * One), 60)
        seconds  == FMul(FSub(minutes, Floor(minutes) * One), 60)
        hours24  == Floor(FAdd(hours, st * One)) % 24
    IN  IF TimeRaises(hours24, Floor(minutes), Floor(seconds))
        THEN [NoTime EXCEPT !.op = "time", !.shift = shift, !.exc = "ValueError"]
        ELSE [NoTime EXCEPT !.op = "time", !.shift = shift, !.hour = hours24,
                            !.minute = Floor(minutes), !.second = Floor(seconds)]

\* The decimal hours a time field may hold, and the shifts (in seconds) a
\* caller may pass, in units: all of them floats of the shortened format.
TimeVals == {0, One \div 2, (21 * One) \div 4, (25 * One) \div 2,
             (75 * One) \div 4, (47 * One) \div 2, (51 * One) \div 2}
TimeShifts == {0, -1, One, -One, 90 * One, -3600 * One, 1800 * One, 7200 * One}

TimeIdle ==
    /\ tobj = [summer_time |-> FALSE, val |-> 0]
    /\ tod = NoTime

\* any of fajr_time(shift), ..., last_third_of_night(shift): the accessor
\* hands its field and the shift to _hours_to_time
TimeAccessor(shift) ==
    /\ tod' = _hours_to_time(tobj.val, shift, tobj.summer_time)
    /\ UNCHANGED tobj

NextTime ==
    /\ UNCHANGED <<hvars, pvars, qvars, cref>>
    /\ \E shift \in TimeShifts : TimeAccessor(shift)

(***************************************************************************)
(* The specifications: one per class.                                      *)
(***************************************************************************)
InitHijri == HijriIdle /\ PrayerIdle /\ TimeIdle /\ QiblahIdle /\ cref = NoRef

SpecHijri == InitHijri /\ [][NextHijri]_vars

\* a Prayer object whose construction completed, with any summer-time setting
\* and any value in the field the accessor reads
InitTime ==
    /\ HijriIdle
    /\ PrayerIdle
    /\ QiblahIdle
    /\ cref = NoRef
    /\ tobj \in [summer_time : BOOLEAN, val : TimeVals]
    /\ tod = NoTime

SpecTime == InitTime /\ [][NextTime]_vars

SpecPrayer == InitHijri /\ [][NextPrayer]_vars

SpecQiblah == InitHijri /\ [][NextQiblah]_vars

SpecConf == InitHijri /\ [][NextConf]_vars

(***************************************************************************)
(* Claims about HijriDate (checked under SpecHijri).                       *)
(***************************************************************************)

\* The last call was the constructor, on these arguments.
Constructed == hret.op = "HijriDate"

\* C1: HijriDate(year, month, day) raises ValueError, and yields no object,
\* whenever year < 0, month is outside 1..12 or day is outside 1..30.
C1_ConstructorRejectsOutOfRange ==
    (/\ Constructed
     /\ \/ hret.args[1] < 0
        \/ ~(hret.args[2] \in 1 .. 12)
        \/ ~(hret.args[3] \in 1 .. 30))
    => (hret.exc = "ValueError" /\ ~hd.set)

\* A syntactically valid triple: year >= 0, month in 1..12, day in 1..30.
ValidTriple(h) == h.year >= 0 /\ h.month \in 1 .. 12 /\ h.day \in 1 .. 30

\* The length of a month of the arithmetic calendar: 30 days in odd months,
\* 29 in even ones, and 30 in the twelfth month of a leap year.
LeapYear(y) == (11 * y + 14) % 30 < 11
MonthLength(y, m) ==
    IF m % 2 = 1 \/ (m = 12 /\ LeapYear(y)) THEN 30 ELSE 29

SameTriple(a, b) == a.year = b.year /\ a.month = b.month /\ a.day = b.day

\* The cached Julian Day of the receiver was just converted back with
\* correction 0.
RoundTripped == hret.op = "round_trip" /\ hret.args = <<0>>

CachedConsistent(h) ==
    h.set => h.julian = hijri_to_julian(h.year, h.month, h.day)

\* C10: every existing HijriDate's cached Julian Day is hijri_to_julian of its
\* own fields; next_date and is_last leave the receiver as it was; and
\* next_date returns the value converted from the cached Julian Day + 1
\* (a whole day is 2 half days).
C10_CachedJulianConsistent ==
    /\ [](/\ CachedConsistent(hd)
          /\ CachedConsistent(hret.date)
          /\ (hret.op = "next_date" /\ hret.date.set)
                => <<hret.date.year, hret.date.month, hret.date.day>>
                     = julian_to_hijri(hd.julian + 2, 0))
    /\ [][hret'.op \in {"next_date", "is_last"} => hd' = hd]_vars

\* next_date was called on the last day of a month and returned the first
\* day of the next one.
C10_Witness ==
    /\ hd.set
    /\ hret.op = "next_date" /\ hret.date.set
    /\ hret.date.month # hd.month /\ hret.date.day = 1
    /\ hd.julian # hret.date.julian

(***************************************************************************)
(* Claims about the time accessors (checked under SpecTime).               *)
(***************************************************************************)

\* The instant val * 3600 + shift + (3600 if summer time), in whole seconds
\* (rounded down) and reduced modulo 24 hours, computed exactly.
ExactSecond(val, shift, summer_time) ==
    LET whole == (val \div One) * 3600 + (shift \div One)
                   + (IF summer_time THEN 3600 ELSE 0)
        part  == ((val % One) * 3600 + (shift % One)) \div One
    IN  (whole + part) % 86400

\* C4: for every decimal hour, every numeric shift and either summer-time
\* setting, the accessor returns a valid time of day, and it is the instant
\* val * 3600 + shift + (3600 if summer time) in whole seconds modulo 24 h.
C4_HoursToTimeExact ==
    tod.op = "time"
    => /\ tod.exc = "none"
       /\ tod.hour \in 0 .. 23 /\ tod.minute \in 0 .. 59 /\ tod.second \in 0 .. 59
       /\ tod.hour * 3600 + tod.minute * 60 + tod.second
            = ExactSecond(tobj.val, tod.shift, tobj.summer_time)

(***************************************************************************)
(* Claims about Prayer (checked under SpecPrayer).                         *)
(***************************************************************************)
\* Prayer(conf, dat, correction_val) has been called
Called == pr.pc # "new"

\* C2: Prayer(conf, date, correction_val) raises for every correction_val
\* outside [-2, 2], and when it does none of the nine time fields has been
\* computed.
C2_RejectsCorrectionOutsideRange ==
    (Called /\ ~(pr.arg \in -2 .. 2))
        => (pr.pc = "raised" /\ pr.exc = "Exception" /\ pr.assigned = {}
            /\ \A f \in Fields : pr.t[f] = NoPrayer.t[f])

\* a correction value of 3 has been rejected
C2_Witness ==
    /\ pr.arg = MaxCorr
    /\ pr.pc = "raised"
    /\ pr.assigned = {}

\* C5: with a FixedTime Isha rule, the Isha value is the Maghrib value plus
\* ramadan_minutes/60 when the Hijri month of the date (under the correction
\* value given to Prayer) is 9, and plus all_year_minutes/60 otherwise.
C5_FixedTimeIshaa ==
    (pconf.set /\ pconf.ishaa_angle.fixed /\ "ishaa" \in pr.assigned)
        => pr.t["ishaa"] = pr.t["maghreb"]
              + ((IF get_hijri(pr.date, pr.correction_val).month = 9
                  THEN pconf.ishaa_angle.ramadan
                  ELSE pconf.ishaa_angle.all_year) * Hour) \div 60

\* Umm al-Qura on a Ramadan date: Isha is set two hours after Maghrib
C5_Witness ==
    /\ pconf.set /\ pconf.angle_ref = 4
    /\ "ishaa" \in pr.assigned
    /\ get_hijri(pr.date, pr.correction_val).month = 9
    /\ pr.t["ishaa"] = pr.t["maghreb"] + 2 * Hour

\* C6: for any valid configuration and date, the computed values satisfy
\* Fajr < Sunrise < Dhuhr < Asr < Maghrib < Isha < Midnight.
C6_Monotonic ==
    pr.pc = "done"
        => /\ pr.t["fajr"] < pr.t["sherook"]
           /\ pr.t["sherook"] < pr.t["dohr"]
           /\ pr.t["dohr"] < pr.t["asr"]
           /\ pr.t["asr"] < pr.t["maghreb"]
           /\ pr.t["maghreb"] < pr.t["ishaa"]
           /\ pr.t["ishaa"] < pr.t["midnight"]

\* C8: for every valid latitude, longitude and date and every registry
\* method, constructing Prayer (with an accepted correction value) completes
\* without a runtime failure.
C8_NoArithmeticFailure ==
    (Called /\ pr.arg \in -2 .. 2) => pr.pc # "raised"

(***************************************************************************)
(* Claims about Qiblah (checked under SpecQiblah).                         *)
(***************************************************************************)
\* C7: for every observer, constructing Qiblah succeeds and the bearing
\* direction() returns lies in [0, 360), a zero denominator included.
C7_BearingAlwaysDefined ==
    qb.called
        => /\ qb.set /\ qb.exc = "none"
           /\ qret.op = "none" => qb.qiblah_dir \in 0 .. (360 * Deg - 1)

\* C9: after any sequence of direction() and sixty() calls, direction()
\* returns the bearing computed at construction and sixty() returns the
\* rendering of that bearing.
C9_NoMutableState ==
    /\ qret.op = "direction" => qret.val = <<QiblahInit(pconf).qiblah_dir>>
    /\ qret.op = "sixty" => qret.val = SixtyString(QiblahInit(pconf).qiblah_dir)

(***************************************************************************)
(* Claims about PrayerConf (checked under SpecConf).                       *)
(***************************************************************************)
\* the Fajr and Isha angles PrayerConf stores for a method
StoresMethod(conf, method) ==
    /\ conf.fajr_angle = (IF method.fajr_angle.fixed THEN method.fajr_angle
                          ELSE Angle(method.fajr_angle.angle + 90 * Deg))
    /\ conf.ishaa_angle = (IF method.ishaa_angle.fixed THEN method.ishaa_angle
                           ELSE Angle(method.ishaa_angle.angle + 90 * Deg))

\* C11: for every int angle_ref PrayerConf completes without an exception
\* and stores an entry of the registry, the one whose id is angle_ref when
\* 1 <= angle_ref <= 9; a MethodInfo is used as given; a numeric angle is
\* stored as angle + 90 and a FixedTime unchanged; any other type raises
\* TypeError.
C11_MethodSelection ==
    /\ cref.type = "int"
         => /\ pconf.set /\ pconf.exc = "none"
            /\ \E i \in 1 .. Len(LIST_FAJR_ISHA_METHODS) :
                  StoresMethod(pconf, LIST_FAJR_ISHA_METHODS[i])
            /\ cref.n \in 1 .. 9
                 => \E i \in 1 .. Len(LIST_FAJR_ISHA_METHODS) :
                       /\ LIST_FAJR_ISHA_METHODS[i].id = cref.n
                       /\ StoresMethod(pconf, LIST_FAJR_ISHA_METHODS[i])
    /\ cref.type = "MethodInfo"
         => pconf.set /\ pconf.exc = "none" /\ StoresMethod(pconf, cref.method)
    /\ cref.type \notin {"none", "int", "MethodInfo"}
         => ~pconf.set /\ pconf.exc = "TypeError"

(***************************************************************************)
(* Claims about the order and the night divisions of Prayer (checked under *)
(* SpecPrayer).                                                            *)
(***************************************************************************)
NightDivisions == {"midnight", "second_third", "last_third"}

\* C12: Dhuhr is assigned before any other time is computed, no step reads a
\* field that is not assigned yet, and the three night divisions are
\* computed only after Maghrib and Fajr have been assigned.
C12_ComputationOrder ==
    /\ [](/\ pr.exc # "AttributeError"
          /\ pr.assigned # {} => "dohr" \in pr.assigned
          /\ pr.pc \in Fields \ {"dohr"} => "dohr" \in pr.assigned
          /\ (pr.pc \in NightDivisions \/ pr.assigned \cap NightDivisions # {})
               => {"maghreb", "fajr"} \subseteq pr.assigned)
    /\ [][\A f \in pr'.assigned \ pr.assigned : Reads(f) \subseteq pr.assigned]_vars

\* a construction that ran to its end: all nine fields assigned
C12_Witness ==
    /\ pr.pc = "done"
    /\ pr.assigned = Fields

=============================================================================
